---------------------------- MODULE Spec2Model ----------------------------
(***************************************************************************)
(* The field-extraction workflow of src/app.py (image flow) and            *)
(* src/views/pdf_field_extractor.py (PDF flow): upload, Invoke All         *)
(* Prompts, Combine All JSONs, Validate & Update, Save JSON to Volume.     *)
(*                                                                         *)
(* A text (a Python str) is a sequence of characters, each character a     *)
(* one-letter string; the grave accent, which cannot be written inside a   *)
(* string of this language, is the character named GRAVE.  A Python value  *)
(* is a record [t, v] (None is [t |-> "null"]); a dict is the sequence of  *)
(* its <<key, value>> pairs in insertion order.                            *)
(*                                                                         *)
(* json.loads and json.dumps are modelled character by character for the   *)
(* JSON the texts of the model are made of: objects, arrays, strings with  *)
(* the two-character escapes, non-negative integers, true, false, null.    *)
(* Signs, fractions, exponents, \u escapes and the NaN / Infinity literals *)
(* occur in no text of the model.                                          *)
(***************************************************************************)
EXTENDS Integers, Sequences, FiniteSets, TLC

VARIABLES
    flow,            \* which script the session runs: "image" or "pdf"
    uploaded_file,   \* the file_uploader widget: NoFile or a document
    uploaded_bytes,  \* st.session_state.uploaded_image_bytes / uploaded_pdf_bytes
    uploaded_name,   \* st.session_state.uploaded_image_name / uploaded_pdf_name
    prompt_results,  \* st.session_state.prompt_results
    final_json,      \* st.session_state.final_json
    volume,          \* the files under /Volumes/jywu/multimodal/test written by Save JSON
    status,          \* the st.success / st.error message of the latest click
    warnings         \* the prompt names st.warning reported in the latest click

vars == <<flow, uploaded_file, uploaded_bytes, uploaded_name, prompt_results,
          final_json, volume, status, warnings>>

----------------------------------------------------------------------------
(* Characters *)

GRAVE == "GRAVE"
QT == "\""
BS == "\\"
NL == "\n"
TAB == "\t"
CR == "\r"
FF == "\f"
BSP == "BSP"
SP == " "

DigitChars == <<"0", "1", "2", "3", "4", "5", "6", "7", "8", "9">>

IsDigit(c) == \E d \in 1..10 : DigitChars[d] = c

DigitVal(c) == (CHOOSE d \in 1..10 : DigitChars[d] = c) - 1

\* str.strip() with no argument: the ASCII characters str.isspace() accepts
IsSpace(c) == c \in {SP, NL, TAB, CR, FF}

\* json.decoder.WHITESPACE: [ \t\n\r]*
IsJsonWs(c) == c \in {SP, NL, TAB, CR}

\* characters below 0x20, which a strict JSON string may not hold unescaped
IsControl(c) == c \in {NL, TAB, CR, FF, BSP}

----------------------------------------------------------------------------
(* Python values *)

None == [t |-> "null"]
PyBool(b) == [t |-> "bool", v |-> b]
PyInt(n) == [t |-> "num", v |-> n]
PyStr(s) == [t |-> "str", v |-> s]
PyList(items) == [t |-> "arr", v |-> items]
PyDict(pairs) == [t |-> "obj", v |-> pairs]

\* isinstance(x, str)
IsStr(x) == x.t = "str"

\* bool(x), as the if statements of the scripts evaluate it
Truthy(x) ==
    CASE x.t = "null" -> FALSE
      [] x.t = "bool" -> x.v
      [] x.t = "num" -> x.v # 0
      [] OTHER -> Len(x.v) > 0

\* list(d.keys()) of a dict
Keys(d) == [i \in 1..Len(d.v) |-> d.v[i][1]]

HasKey(d, k) == \E i \in 1..Len(d.v) : d.v[i][1] = k

\* d[k] = x on the pairs of a dict: an existing key keeps its place
SetItem(pairs, k, x) ==
    IF \E i \in 1..Len(pairs) : pairs[i][1] = k
    THEN [i \in 1..Len(pairs) |-> IF pairs[i][1] = k THEN <<k, x>> ELSE pairs[i]]
    ELSE Append(pairs, <<k, x>>)

----------------------------------------------------------------------------
(* json.loads *)

\* the outcome of a scanning step: the value and the index after it, or a
\* JSONDecodeError (ok = FALSE)
Scanned(x, i) == [ok |-> TRUE, v |-> x, i |-> i]
DecodeError == [ok |-> FALSE, v |-> None, i |-> 0]

CharAt(s, i) == IF i >= 1 /\ i <= Len(s) THEN s[i] ELSE ""

\* s[i:i+n] == lit
LitAt(s, i, lit) ==
    /\ i + Len(lit) - 1 <= Len(s)
    /\ SubSeq(s, i, i + Len(lit) - 1) = lit

RECURSIVE SkipWs(_, _)
\* WHITESPACE.match(s, i).end()
SkipWs(s, i) ==
    IF i <= Len(s) /\ IsJsonWs(s[i]) THEN SkipWs(s, i + 1) ELSE i

\* the character a backslash escape stands for ("" for none; \u is not modelled)
Unescaped(e) ==
    CASE e = QT -> QT
      [] e = BS -> BS
      [] e = "/" -> "/"
      [] e = "n" -> NL
      [] e = "t" -> TAB
      [] e = "r" -> CR
      [] e = "f" -> FF
      [] e = "b" -> BSP
      [] OTHER -> ""

RECURSIVE ScanString(_, _, _)
\* json.decoder.scanstring with strict=True, from the index after the opening quote
ScanString(s, i, acc) ==
    IF i > Len(s) THEN DecodeError
    ELSE IF s[i] = QT THEN Scanned(PyStr(acc), i + 1)
    ELSE IF s[i] = BS THEN
        IF Unescaped(CharAt(s, i + 1)) = "" THEN DecodeError
        ELSE ScanString(s, i + 2, Append(acc, Unescaped(s[i + 1])))
    ELSE IF IsControl(s[i]) THEN DecodeError
    ELSE ScanString(s, i + 1, Append(acc, s[i]))

RECURSIVE ScanDigits(_, _, _)
ScanDigits(s, i, n) ==
    IF i <= Len(s) /\ IsDigit(s[i])
    THEN ScanDigits(s, i + 1, 10 * n + DigitVal(s[i]))
    ELSE Scanned(PyInt(n), i)

\* NUMBER_RE's integer part, (0|[1-9]\d*), at a digit
ScanNumber(s, i) ==
    IF s[i] = "0" THEN Scanned(PyInt(0), i + 1) ELSE ScanDigits(s, i, 0)

RECURSIVE ScanOnce(_, _)
RECURSIVE ObjectMembers(_, _, _)
RECURSIVE ArrayItems(_, _, _)

\* JSONObject's loop, at the opening quote of a key
ObjectMembers(s, i, pairs) ==
    LET k == ScanString(s, i + 1, <<>>) IN
    IF ~k.ok THEN DecodeError ELSE
    LET colon == SkipWs(s, k.i) IN
    IF CharAt(s, colon) # ":" THEN DecodeError ELSE
    LET x == ScanOnce(s, SkipWs(s, colon + 1)) IN
    IF ~x.ok THEN DecodeError ELSE
    LET d == SkipWs(s, x.i)
        next == SetItem(pairs, k.v.v, x.v)
    IN  IF CharAt(s, d) = "}" THEN Scanned(PyDict(next), d + 1)
        ELSE IF CharAt(s, d) # "," THEN DecodeError
        ELSE LET q == SkipWs(s, d + 1) IN
             IF CharAt(s, q) = QT THEN ObjectMembers(s, q, next) ELSE DecodeError

\* JSONObject, from the index after the opening brace
ScanObject(s, i) ==
    LET j == SkipWs(s, i) IN
    IF CharAt(s, j) = "}" THEN Scanned(PyDict(<<>>), j + 1)
    ELSE IF CharAt(s, j) = QT THEN ObjectMembers(s, j, <<>>)
    ELSE DecodeError

\* JSONArray's loop, at the start of an item
ArrayItems(s, i, items) ==
    LET x == ScanOnce(s, i) IN
    IF ~x.ok THEN DecodeError ELSE
    LET d == SkipWs(s, x.i) IN
    IF CharAt(s, d) = "]" THEN Scanned(PyList(Append(items, x.v)), d + 1)
    ELSE IF CharAt(s, d) = "," THEN ArrayItems(s, SkipWs(s, d + 1), Append(items, x.v))
    ELSE DecodeError

\* JSONArray, from the index after the opening bracket
ScanArray(s, i) ==
    LET j == SkipWs(s, i) IN
    IF CharAt(s, j) = "]" THEN Scanned(PyList(<<>>), j + 1) ELSE ArrayItems(s, j, <<>>)

\* json.scanner.py_make_scanner's _scan_once
ScanOnce(s, i) ==
    LET c == CharAt(s, i) IN
    CASE c = QT -> ScanString(s, i + 1, <<>>)
      [] c = "{" -> ScanObject(s, i + 1)
      [] c = "[" -> ScanArray(s, i + 1)
      [] c = "n" /\ LitAt(s, i, <<"n", "u", "l", "l">>) -> Scanned(None, i + 4)
      [] c = "t" /\ LitAt(s, i, <<"t", "r", "u", "e">>) -> Scanned(PyBool(TRUE), i + 4)
      [] c = "f" /\ LitAt(s, i, <<"f", "a", "l", "s", "e">>) -> Scanned(PyBool(FALSE), i + 5)
      [] IsDigit(c) -> ScanNumber(s, i)
      [] OTHER -> DecodeError

\* json.loads(s): JSONDecoder.decode; ok = FALSE when it raises
loads(s) ==
    LET x == ScanOnce(s, SkipWs(s, 1)) IN
    IF ~x.ok THEN DecodeError
    ELSE IF SkipWs(s, x.i) # Len(s) + 1 THEN DecodeError
    ELSE x

----------------------------------------------------------------------------
(* json.dumps(obj, indent=2) *)

\* ESCAPE_ASCII's replacement of one character (ensure_ascii=True)
Escaped(c) ==
    CASE c = QT -> <<BS, QT>>
      [] c = BS -> <<BS, BS>>
      [] c = NL -> <<BS, "n">>
      [] c = TAB -> <<BS, "t">>
      [] c = CR -> <<BS, "r">>
      [] c = FF -> <<BS, "f">>
      [] c = BSP -> <<BS, "b">>
      [] OTHER -> <<c>>

RECURSIVE EscapeAll(_)
EscapeAll(s) == IF s = <<>> THEN <<>> ELSE Escaped(Head(s)) \o EscapeAll(Tail(s))

\* encode_basestring_ascii
EncodeStr(s) == <<QT>> \o EscapeAll(s) \o <<QT>>

RECURSIVE IntRepr(_)
\* int.__repr__ of a non-negative int
IntRepr(n) ==
    IF n < 10 THEN <<DigitChars[n + 1]>>
    ELSE IntRepr(n \div 10) \o <<DigitChars[(n % 10) + 1]>>

RECURSIVE Spaces(_)
Spaces(n) == IF n = 0 THEN <<>> ELSE <<SP>> \o Spaces(n - 1)

\* newline_indent of _iterencode at a nesting level, with indent=2
NewlineIndent(level) == <<NL>> \o Spaces(2 * level)

RECURSIVE Encode(_, _)
RECURSIVE EncodeItems(_, _, _)
RECURSIVE EncodePairs(_, _, _)

\* _iterencode_list's loop from item i
EncodeItems(items, i, level) ==
    IF i > Len(items) THEN <<>>
    ELSE (IF i = 1 THEN <<>> ELSE <<",">>) \o NewlineIndent(level)
         \o Encode(items[i], level) \o EncodeItems(items, i + 1, level)

\* _iterencode_dict's loop from pair i
EncodePairs(pairs, i, level) ==
    IF i > Len(pairs) THEN <<>>
    ELSE (IF i = 1 THEN <<>> ELSE <<",">>) \o NewlineIndent(level)
         \o EncodeStr(pairs[i][1]) \o <<":", SP>>
         \o Encode(pairs[i][2], level) \o EncodePairs(pairs, i + 1, level)

\* _iterencode of a value nested level deep
Encode(x, level) ==
    CASE x.t = "null" -> <<"n", "u", "l", "l">>
      [] x.t = "bool" -> IF x.v THEN <<"t", "r", "u", "e">> ELSE <<"f", "a", "l", "s", "e">>
      [] x.t = "num" -> IntRepr(x.v)
      [] x.t = "str" -> EncodeStr(x.v)
      [] x.t = "arr" ->
            IF x.v = <<>> THEN <<"[", "]">>
            ELSE <<"[">> \o EncodeItems(x.v, 1, level + 1) \o NewlineIndent(level) \o <<"]">>
      [] OTHER ->
            IF x.v = <<>> THEN <<"{", "}">>
            ELSE <<"{">> \o EncodePairs(x.v, 1, level + 1) \o NewlineIndent(level) \o <<"}">>

\* json.dumps(x, indent=2)
dumps(x) == Encode(x, 0)

----------------------------------------------------------------------------
(* The scripts' constants *)

total_number_of_holes ==
    <<"t", "o", "t", "a", "l", "_", "n", "u", "m", "b", "e", "r", "_", "o",
      "f", "_", "h", "o", "l", "e", "s">>

dowel_holds ==
    <<"d", "o", "w", "e", "l", "_", "h", "o", "l", "d", "s">>

drill_dimensions ==
    <<"d", "r", "i", "l", "l", "_", "d", "i", "m", "e", "n", "s", "i", "o",
      "n", "s">>

Prompt1 == <<"P", "r", "o", "m", "p", "t", SP, "1">>

Prompt2 == <<"P", "r", "o", "m", "p", "t", SP, "2">>

\* list(prompts.keys()) of the script a session runs
prompts(f) ==
    IF f = "image"
    THEN <<total_number_of_holes, dowel_holds, drill_dimensions>>
    ELSE <<Prompt1, Prompt2>>

VolumeRoot ==
    <<"/", "V", "o", "l", "u", "m", "e", "s", "/", "j", "y", "w", "u", "/",
      "m", "u", "l", "t", "i", "m", "o", "d", "a", "l", "/", "t", "e", "s",
      "t", "/">>

ExtractedSuffix ==
    <<"_", "e", "x", "t", "r", "a", "c", "t", "e", "d", ".", "j", "s", "o",
      "n">>

FallbackName ==
    <<"e", "x", "t", "r", "a", "c", "t", "e", "d", "_", "f", "i", "e", "l",
      "d", "s", ".", "j", "s", "o", "n">>

FenceJson == <<GRAVE, GRAVE, GRAVE, "j", "s", "o", "n">>

Fence == <<GRAVE, GRAVE, GRAVE>>

DotPdf == <<".", "p", "d", "f">>

----------------------------------------------------------------------------
(* str methods *)

\* s.startswith(p)
StartsWith(s, p) == Len(s) >= Len(p) /\ SubSeq(s, 1, Len(p)) = p

\* s.endswith(p)
EndsWith(s, p) == Len(s) >= Len(p) /\ SubSeq(s, Len(s) - Len(p) + 1, Len(s)) = p

RECURSIVE LStrip(_)
LStrip(s) == IF s # <<>> /\ IsSpace(Head(s)) THEN LStrip(Tail(s)) ELSE s

RECURSIVE RStrip(_)
RStrip(s) ==
    IF s # <<>> /\ IsSpace(s[Len(s)]) THEN RStrip(SubSeq(s, 1, Len(s) - 1)) ELSE s

\* s.strip()
Strip(s) == RStrip(LStrip(s))

\* s[n:]
DropFirst(s, n) == SubSeq(s, n + 1, Len(s))

\* s[:-n]
DropLast(s, n) == SubSeq(s, 1, Len(s) - n)

\* s.rsplit(".", 1)[0]
RSplitDot(s) ==
    IF \E i \in 1..Len(s) : s[i] = "."
    THEN LET last == CHOOSE i \in 1..Len(s) :
                        s[i] = "." /\ \A j \in (i + 1)..Len(s) : s[j] # "."
         IN  SubSeq(s, 1, last - 1)
    ELSE s

RECURSIVE RemoveDotPdf(_)
\* s.replace(".pdf", "")
RemoveDotPdf(s) ==
    IF s = <<>> THEN <<>>
    ELSE IF StartsWith(s, DotPdf) THEN RemoveDotPdf(DropFirst(s, Len(DotPdf)))
    ELSE <<Head(s)>> \o RemoveDotPdf(Tail(s))

----------------------------------------------------------------------------
(* Combine All JSONs: the handling of one entry *)

\* cleaned, changed: the trailing fence is left in place
cleanedKeepsTrailingFence(result) ==
    LET c0 == Strip(result)
        c1 == IF StartsWith(c0, FenceJson) THEN DropFirst(c0, 7) ELSE c0
        c2 == IF StartsWith(c1, Fence) THEN DropFirst(c1, 3) ELSE c1
    IN  Strip(c2)

\* the image flow's removal of markdown code blocks
cleaned(result) ==
    LET c0 == Strip(result)
        c1 == IF StartsWith(c0, FenceJson) THEN DropFirst(c0, 7) ELSE c0
        c2 == IF StartsWith(c1, Fence) THEN DropFirst(c1, 3) ELSE c1
        c3 == IF EndsWith(c2, Fence) THEN DropLast(c2, 3) ELSE c2
    IN  Strip(c3)

\* the text json.loads is given for a str result
ParsedText(f, result) == IF f = "image" THEN cleaned(result) ELSE result

\* whether the try block of an entry raises (the except branch runs)
ParseFails(f, result) == IsStr(result) /\ ~loads(ParsedText(f, result.v)).ok

\* CombinedValue, changed: the except branch stores None
CombinedValueFallbackNone(f, result) ==
    IF IsStr(result)
    THEN LET parsed == loads(ParsedText(f, result.v))
         IN  IF parsed.ok THEN parsed.v ELSE None
    ELSE result

\* CombinedValue, changed: the except branch stores the text json.loads was given
CombinedValueKeepsCleaned(f, result) ==
    IF IsStr(result)
    THEN LET parsed == loads(ParsedText(f, result.v))
         IN  IF parsed.ok THEN parsed.v ELSE PyStr(ParsedText(f, result.v))
    ELSE result

\* CombinedValue, changed: a None result is stored as an empty dict
CombinedValueNoneAsEmpty(f, result) ==
    IF IsStr(result)
    THEN LET parsed == loads(ParsedText(f, result.v))
         IN  IF parsed.ok THEN parsed.v ELSE result
    ELSE IF result = None THEN PyDict(<<>>) ELSE result

\* the value stored as combined[name] for a result
CombinedValue(f, result) ==
    IF IsStr(result)
    THEN LET parsed == loads(ParsedText(f, result.v))
         IN  IF parsed.ok THEN parsed.v ELSE result
    ELSE result

RECURSIVE CombineFromAbortOnError(_, _, _, _)
\* CombineFrom, changed: the first entry that fails to parse ends the loop
CombineFromAbortOnError(f, items, i, combined) ==
    IF i > Len(items) \/ ParseFails(f, items[i][2]) THEN combined
    ELSE CombineFromAbortOnError(f, items, i + 1,
                                 SetItem(combined, items[i][1], CombinedValue(f, items[i][2])))

RECURSIVE CombineFrom(_, _, _, _)
\* the loop over prompt_results.items(), from entry i
CombineFrom(f, items, i, combined) ==
    IF i > Len(items) THEN combined
    ELSE CombineFrom(f, items, i + 1,
                     SetItem(combined, items[i][1], CombinedValue(f, items[i][2])))

\* the names st.warning reports: the image flow's except branch
Warned(f, results) ==
    IF f = "image"
    THEN {results.v[i][1] : i \in {j \in 1..Len(results.v) : ParseFails(f, results.v[j][2])}}
    ELSE {}

----------------------------------------------------------------------------
(* Inputs: documents, gateway answers, hand edits *)

\* how many of the gateway answers below SpecCombine draws from
MaxTexts == 8

\* how many of the hand-edited texts below Spec draws from
MaxEdits == 4

FencedObject ==
    <<GRAVE, GRAVE, GRAVE, "j", "s", "o", "n", NL, "{", QT, "h", "o", "l",
      "e", "s", QT, ":", SP, "4", "}", NL, GRAVE, GRAVE, GRAVE>>

Prose == <<"f", "o", "u", "r", SP, "h", "o", "l", "e", "s">>

QuotedNumber == <<QT, "4", QT>>

EmptyFence ==
    <<GRAVE, GRAVE, GRAVE, "j", "s", "o", "n", NL, GRAVE, GRAVE, GRAVE>>

BareFenceList ==
    <<SP, GRAVE, GRAVE, GRAVE, NL, "[", "4", ",", SP, "t", "r", "u", "e", "]",
      NL, GRAVE, GRAVE, GRAVE, SP>>

PlainObject == <<"{", QT, "h", "o", "l", "e", "s", QT, ":", SP, "4", "}">>

EmptyObject == <<"{", "}">>

NullLiteral == <<"n", "u", "l", "l">>

DoubleFence ==
    <<GRAVE, GRAVE, GRAVE, GRAVE, GRAVE, GRAVE, "j", "s", "o", "n", NL, "4",
      NL, GRAVE, GRAVE, GRAVE, GRAVE, GRAVE, GRAVE>>

Blank == <<SP, NL>>

AnswerList ==
    <<FencedObject, Prose, QuotedNumber, EmptyFence, BareFenceList,
      PlainObject, EmptyObject, DoubleFence, NullLiteral, Blank>>

\* the answers a model call may return in SpecCombine
Answers == {AnswerList[i] : i \in {j \in 1..Len(AnswerList) : j <= MaxTexts}}

\* the answers a model call may return in Spec
WorkflowAnswers == {FencedObject}

EditMalformed == <<"{", "n", "o", "t", SP, "j", "s", "o", "n">>

EditOrphanKey == <<"{", QT, "x", QT, ":", SP, "1", "}">>

EditList == <<"[", "1", "]">>

EditEmptyObject == <<"{", "}">>

EditString == <<QT, "a", BS, QT, "b", QT>>

EditZero == <<"0">>

EditTextList ==
    <<EditMalformed, EditOrphanKey, EditList, EditEmptyObject, EditString,
      EditZero>>

\* what the user may have typed into the text area instead of its default
EditTexts == {EditTextList[i] : i \in {j \in 1..Len(EditTextList) : j <= MaxEdits}}

\* an uploaded file: its name, its bytes, and whether PIL can open it
File(name, bytes, image) ==
    [t |-> "file", name |-> name, bytes |-> bytes, image |-> image]

PyBytes(b) == [t |-> "bytes", v |-> b]

\* the files a user picks: one image, or one of two PDFs
Documents(f) ==
    IF f = "image"
    THEN {File(<<"a", ".", "p", "n", "g">>, <<"0x89", "P", "N", "G">>, TRUE)}
    ELSE {File(<<"a", ".", "p", "d", "f">>, <<"%", "P", "D", "F">>, TRUE),
          File(<<"b", ".", "p", "d", "f">>, <<"%", "P", "D", "F", "2">>, TRUE)}

\* a file the image uploader accepts by its name and PIL cannot open
Unopenable == File(<<"a", ".", "p", "n", "g">>, <<"n", "o", "t">>, FALSE)

----------------------------------------------------------------------------
(* The script run one click triggers *)

\* the session fields after "if uploaded_file:" stored the file
StoreFile(file) ==
    /\ uploaded_bytes' = IF file # None THEN PyBytes(file.bytes) ELSE uploaded_bytes
    /\ uploaded_name' = IF file # None THEN PyStr(file.name) ELSE uploaded_name

\* Image.open raises on a file that is no image, which ends the image script's
\* run before Step 2: no button below it is drawn
Drawn(file) == ~(flow = "image" /\ file # None /\ ~file.image)

\* Step 2 is drawn: "if st.session_state.uploaded_image_bytes:"
Step2 == Drawn(uploaded_file) /\ Truthy(uploaded_bytes)

\* the results and the Combine button are drawn: "if st.session_state.prompt_results:"
Step3 == Step2 /\ Truthy(prompt_results)

\* Review & Edit and Save Results are drawn: "if st.session_state.final_json:"
Step4 == Drawn(uploaded_file) /\ Truthy(final_json)

\* extract_with_llm: the answer's text, or None when the call raised
extract_with_llm(outcome) ==
    IF outcome.raised THEN None ELSE PyStr(outcome.content)

Reply(text) == [raised |-> FALSE, content |-> text]
Raise == [raised |-> TRUE, content |-> <<>>]

RECURSIVE InvokeFromSkipFailed(_, _, _, _)
\* InvokeFrom, changed: a call that raised leaves no entry
InvokeFromSkipFailed(names, outcome, i, results) ==
    IF i > Len(names) THEN results
    ELSE InvokeFromSkipFailed(names, outcome, i + 1,
                              IF outcome[i].raised THEN results
                              ELSE SetItem(results, names[i], extract_with_llm(outcome[i])))

RECURSIVE InvokeFrom(_, _, _, _)
\* the loop over prompts.items(), from prompt i
InvokeFrom(names, outcome, i, results) ==
    IF i > Len(names) THEN results
    ELSE InvokeFrom(names, outcome, i + 1,
                    SetItem(results, names[i], extract_with_llm(outcome[i])))

\* default_name of Step 4
DefaultName ==
    IF Truthy(uploaded_name)
    THEN (IF flow = "image" THEN RSplitDot(uploaded_name.v)
                            ELSE RemoveDotPdf(uploaded_name.v)) \o ExtractedSuffix
    ELSE FallbackName

\* Put, changed: a path that exists keeps its content
PutKeepExisting(vol, path, data) ==
    [p \in DOMAIN vol \cup {path} |-> IF p \in DOMAIN vol THEN vol[p] ELSE data]

\* w.files.upload(path, data, overwrite=True) that succeeded
Put(vol, path, data) ==
    [p \in DOMAIN vol \cup {path} |-> IF p = path THEN data ELSE vol[p]]

----------------------------------------------------------------------------
(* Actions *)

\* Upload, changed: a new file empties the results and the combined document
UploadClearing(file) ==
    /\ file # uploaded_file
    /\ uploaded_file' = file
    /\ StoreFile(file)
    /\ prompt_results' = PyDict(<<>>)
    /\ final_json' = PyDict(<<>>)
    /\ status' = "none"
    /\ warnings' = {}
    /\ UNCHANGED <<flow, volume>>

\* the user picks a file in the uploader
Upload(file) ==
    /\ file # uploaded_file
    /\ uploaded_file' = file
    /\ StoreFile(file)
    /\ status' = "none"
    /\ warnings' = {}
    /\ UNCHANGED <<flow, prompt_results, final_json, volume>>

\* the user clears the uploader
RemoveFile ==
    /\ uploaded_file # None
    /\ uploaded_file' = None
    /\ StoreFile(None)
    /\ status' = "none"
    /\ warnings' = {}
    /\ UNCHANGED <<flow, prompt_results, final_json, volume>>

\* the button "Invoke All Prompts", each model call answering from texts or raising
InvokeAllPrompts(texts) ==
    /\ Step2
    /\ \E outcome \in [1..Len(prompts(flow)) -> {Reply(x) : x \in texts} \cup {Raise}] :
          prompt_results' = PyDict(InvokeFrom(prompts(flow), outcome, 1, <<>>))
    /\ StoreFile(uploaded_file)
    /\ status' = "extractions_complete"
    /\ warnings' = {}
    /\ UNCHANGED <<flow, uploaded_file, final_json, volume>>

\* CombineAllJSONs, changed: combined starts from the current final_json
CombineAllJSONsAccumulating ==
    /\ Step3
    /\ final_json' = PyDict(CombineFrom(flow, prompt_results.v, 1,
                                        IF final_json.t = "obj" THEN final_json.v ELSE <<>>))
    /\ warnings' = Warned(flow, prompt_results)
    /\ StoreFile(uploaded_file)
    /\ status' = "combined"
    /\ UNCHANGED <<flow, uploaded_file, prompt_results, volume>>

\* the button "Combine All JSONs"
CombineAllJSONs ==
    /\ Step3
    /\ final_json' = PyDict(CombineFrom(flow, prompt_results.v, 1, <<>>))
    /\ warnings' = Warned(flow, prompt_results)
    /\ StoreFile(uploaded_file)
    /\ status' = "combined"
    /\ UNCHANGED <<flow, uploaded_file, prompt_results, volume>>

RECURSIVE UpdateFrom(_, _, _)
\* d.update(other) on the pairs of two dicts, from pair i of other
UpdateFrom(pairs, other, i) ==
    IF i > Len(other) THEN pairs
    ELSE UpdateFrom(SetItem(pairs, other[i][1], other[i][2]), other, i + 1)

\* ValidateAndUpdate, changed: a parsed object is merged into final_json
ValidateAndUpdateMerging(edits) ==
    /\ Step4
    /\ \E edited_json \in {dumps(final_json)} \cup edits :
          LET parsed == loads(edited_json) IN
          IF parsed.ok
          THEN /\ final_json' = IF parsed.v.t = "obj" /\ final_json.t = "obj"
                                THEN PyDict(UpdateFrom(final_json.v, parsed.v.v, 1))
                                ELSE parsed.v
               /\ status' = "valid_updated"
          ELSE /\ final_json' = final_json
               /\ status' = "invalid_json"
    /\ StoreFile(uploaded_file)
    /\ warnings' = {}
    /\ UNCHANGED <<flow, uploaded_file, prompt_results, volume>>

\* the button "Validate & Update", the text area holding its default or an edit
ValidateAndUpdate(edits) ==
    /\ Step4
    /\ \E edited_json \in {dumps(final_json)} \cup edits :
          LET parsed == loads(edited_json) IN
          IF parsed.ok
          THEN /\ final_json' = parsed.v
               /\ status' = "valid_updated"
          ELSE /\ final_json' = final_json
               /\ status' = "invalid_json"
    /\ StoreFile(uploaded_file)
    /\ warnings' = {}
    /\ UNCHANGED <<flow, uploaded_file, prompt_results, volume>>

\* the button "Save JSON to Volume", the upload succeeding or raising
SaveJSONToVolume ==
    /\ Step4
    /\ \E output_filename \in {DefaultName}, uploaded \in BOOLEAN :
          LET json_str == dumps(final_json)
              output_path == VolumeRoot \o output_filename
          IN  IF uploaded
              THEN /\ volume' = Put(volume, output_path, json_str)
                   /\ status' = "saved"
              ELSE /\ volume' = volume
                   /\ status' = "save_error"
    /\ StoreFile(uploaded_file)
    /\ warnings' = {}
    /\ UNCHANGED <<flow, uploaded_file, prompt_results, final_json>>

----------------------------------------------------------------------------
(* Specifications *)

\* a new session of either script
Init ==
    /\ flow \in {"image", "pdf"}
    /\ uploaded_file = None
    /\ uploaded_bytes = None
    /\ uploaded_name = None
    /\ prompt_results = PyDict(<<>>)
    /\ final_json = PyDict(<<>>)
    /\ volume = <<>>
    /\ status = "none"
    /\ warnings = {}

Next ==
    \/ \E file \in Documents(flow) : Upload(file)
    \/ RemoveFile
    \/ InvokeAllPrompts(WorkflowAnswers)
    \/ CombineAllJSONs
    \/ ValidateAndUpdate(EditTexts)
    \/ SaveJSONToVolume

\* the whole workflow, over a few gateway answers
Spec == Init /\ [][Next]_vars

NextAnyFile ==
    \/ Next
    \/ flow = "image" /\ Upload(Unopenable)

\* the whole workflow, the image uploader also given a file PIL cannot open
SpecAnyFile == Init /\ [][NextAnyFile]_vars

\* an answer that tells the documents apart: the model call is sent the stored
\* bytes, and here it reports how many they are
AnswerAbout(data) ==
    <<"{", QT, "s", "i", "z", "e", QT, ":", SP>> \o IntRepr(Len(data.v)) \o <<"}">>

\* the answers a model call may return in SpecDocuments
AnswersAbout(data) == IF Truthy(data) THEN {AnswerAbout(data)} ELSE {}

NextDocuments ==
    \/ \E file \in Documents(flow) : Upload(file)
    \/ RemoveFile
    \/ InvokeAllPrompts(AnswersAbout(uploaded_bytes))
    \/ CombineAllJSONs
    \/ ValidateAndUpdate({EditMalformed, EditOrphanKey})
    \/ SaveJSONToVolume

\* the whole workflow, the answers of the model calls depending on the document
SpecDocuments == Init /\ [][NextDocuments]_vars

\* a session whose Invoke All Prompts has just run on the uploaded document,
\* the model calls having answered in any of the ways of Answers or raised
InitCombine ==
    /\ flow \in {"image", "pdf"}
    /\ uploaded_file \in Documents(flow)
    /\ uploaded_bytes = PyBytes(uploaded_file.bytes)
    /\ uploaded_name = PyStr(uploaded_file.name)
    /\ \E outcome \in [1..Len(prompts(flow)) -> {Reply(x) : x \in Answers} \cup {Raise}] :
          prompt_results = PyDict(InvokeFrom(prompts(flow), outcome, 1, <<>>))
    /\ final_json = PyDict(<<>>)
    /\ volume = <<>>
    /\ status = "extractions_complete"
    /\ warnings = {}

\* Combine All JSONs applied to every batch of gateway answers
SpecCombine == InitCombine /\ [][CombineAllJSONs]_vars

----------------------------------------------------------------------------
(* Properties *)

\* the values of a dict, in order
Values(d) == [i \in 1..Len(d.v) |-> d.v[i][2]]

\* C1: after Invoke All Prompts, whatever each model call did, prompt_results
\* has exactly the configured prompt names as its keys, once each and in the
\* configured order, each value the answer's text or None; and prompt_results
\* never holds any other non-empty key set.
C1_InvokeKeys ==
    /\ status = "extractions_complete" => Truthy(prompt_results)
    /\ Truthy(prompt_results) =>
          /\ Keys(prompt_results) = prompts(flow)
          /\ \A i \in 1..Len(prompt_results.v) :
                Values(prompt_results)[i].t \in {"str", "null"}

\* an Invoke All Prompts of the image flow in which one call raised and another answered
C1_Witness ==
    /\ flow = "image"
    /\ status = "extractions_complete"
    /\ Values(prompt_results)[2] = None
    /\ IsStr(Values(prompt_results)[3])

\* C2: Combine All JSONs always completes, and final_json is then a dict with
\* the keys of prompt_results, one entry per result and in the same order.
C2_CombineKeys ==
    status = "combined" =>
        /\ final_json.t = "obj"
        /\ Keys(final_json) = Keys(prompt_results)

\* a Combine of a batch holding a failed call, an unparsable answer and a parsable one
C2_Witness ==
    /\ status = "combined"
    /\ \E i, j, k \in 1..Len(prompt_results.v) :
          /\ i < j /\ j < k
          /\ ParseFails(flow, Values(prompt_results)[i])
          /\ Values(prompt_results)[j] = None
          /\ IsStr(Values(prompt_results)[k])
          /\ ~ParseFails(flow, Values(prompt_results)[k])

\* C3: a Validate & Update step either reports invalid JSON and leaves
\* final_json as it was, or replaces final_json by the value parsed from the
\* whole text of the text area; nothing of the old document is kept.
C3_AllOrNothing ==
    [][/\ status' = "invalid_json" => final_json' = final_json
       /\ status' = "valid_updated" =>
             \E text \in {dumps(final_json)} \cup EditTexts :
                 loads(text).ok /\ final_json' = loads(text).v]_vars

\* a commit of an edited text replaced a combined document by the edit alone
C3_Witness ==
    /\ status = "valid_updated"
    /\ final_json = PyDict(<< <<(<<"x">>), PyInt(1)>> >>)

\* C4: an answer that does not parse after the flow's cleaning, the one whose
\* cleaned text is empty included, is stored verbatim under its name, and
\* every entry of the batch is still combined.
C4_FallbackVerbatim ==
    status = "combined" =>
        /\ Len(final_json.v) = Len(prompt_results.v)
        /\ \A i \in 1..Len(prompt_results.v) :
              LET result == Values(prompt_results)[i] IN
              (IsStr(result) /\ ~loads(ParsedText(flow, result.v)).ok)
                  => final_json.v[i] = <<Keys(prompt_results)[i], result>>

\* the image flow combined a batch whose first answer cleans to the empty
\* text and whose last answer parsed
C4_Witness ==
    /\ flow = "image"
    /\ status = "combined"
    /\ Values(prompt_results)[1] = PyStr(EmptyFence)
    /\ cleaned(EmptyFence) = <<>>
    /\ Values(final_json)[1] = PyStr(EmptyFence)
    /\ Values(final_json)[3].t = "obj"

\* C5: the entry of a failed call (None) keeps its key after Combine, its
\* value is None, and None is neither a dict nor a list: it differs from {}.
C5_NullMarker ==
    status = "combined" =>
        \A i \in 1..Len(prompt_results.v) :
            Values(prompt_results)[i] = None =>
                /\ i <= Len(final_json.v)
                /\ final_json.v[i] = <<Keys(prompt_results)[i], None>>
                /\ Values(final_json)[i].t \notin {"obj", "arr"}
                /\ Values(final_json)[i] # PyDict(<<>>)

\* a combined batch with a failed call next to an answer that is the empty object
C5_Witness ==
    /\ status = "combined"
    /\ \E i, j \in 1..Len(final_json.v) :
          /\ Values(prompt_results)[i] = None
          /\ Values(final_json)[i] = None
          /\ Values(prompt_results)[j] = PyStr(EmptyObject)
          /\ Values(final_json)[j] = PyDict(<<>>)

AllSpace(s) == \A i \in 1..Len(s) : IsSpace(s[i])

\* the bodies b for which raw is whitespace, a fence marker, b, a closing
\* fence, whitespace
FencedBodies(raw) ==
    {SubSeq(raw, a + Len(m) + 1, z - Len(Fence)) :
        <<a, z, m>> \in {x \in (0..Len(raw)) \X (0..Len(raw)) \X {FenceJson, Fence} :
            /\ x[1] + Len(x[3]) + Len(Fence) <= x[2]
            /\ AllSpace(SubSeq(raw, 1, x[1]))
            /\ SubSeq(raw, x[1] + 1, x[1] + Len(x[3])) = x[3]
            /\ SubSeq(raw, x[2] - Len(Fence) + 1, x[2]) = Fence
            /\ AllSpace(SubSeq(raw, x[2] + 1, Len(raw)))}}

\* C6: in the image flow an answer made of whitespace, a fence marker, a
\* well-formed JSON body and a closing fence is stored as the parsed body,
\* and an answer that is well-formed JSON as it stands as its parsed value.
C6_FenceStripping ==
    (flow = "image" /\ status = "combined") =>
        \A i \in 1..Len(prompt_results.v) :
            LET result == Values(prompt_results)[i] IN
            IsStr(result) =>
                /\ \A body \in FencedBodies(result.v) :
                      loads(body).ok => Values(final_json)[i] = loads(body).v
                /\ loads(result.v).ok => Values(final_json)[i] = loads(result.v).v

\* the image flow combined a json-tagged fence, a bare fence inside
\* whitespace and an unfenced object, each stored as its parsed value
C6_Witness ==
    /\ flow = "image"
    /\ status = "combined"
    /\ Values(prompt_results) =
          <<PyStr(FencedObject), PyStr(BareFenceList), PyStr(PlainObject)>>
    /\ FencedBodies(FencedObject) # {}
    /\ FencedBodies(BareFenceList) # {}
    /\ Values(final_json)[1] = PyDict(<< <<(<<"h", "o", "l", "e", "s">>), PyInt(4)>> >>)
    /\ Values(final_json)[2] = PyList(<<PyInt(4), PyBool(TRUE)>>)
    /\ Values(final_json)[3] = Values(final_json)[1]

\* final_json is a dict whose keys are the configured prompt names, in order
KeysAreNames == final_json.t = "obj" /\ Keys(final_json) = prompts(flow)

\* C7 as stated: in every state each key of final_json is a configured prompt
\* name and a non-empty final_json misses none of them.
C7_Original ==
    final_json.t = "obj" =>
        /\ \A i \in 1..Len(final_json.v) :
              \E n \in 1..Len(prompts(flow)) : Keys(final_json)[i] = prompts(flow)[n]
        /\ Truthy(final_json) =>
              \A n \in 1..Len(prompts(flow)) : HasKey(final_json, prompts(flow)[n])

\* C7, amended: Combine leaves final_json with exactly the configured prompt
\* names as keys, and they stay its keys through every step that is not a
\* Validate & Update commit.
C7_KeysUntilCommit ==
    [][/\ status' = "combined" => KeysAreNames'
       /\ (KeysAreNames /\ status' # "valid_updated") => KeysAreNames']_vars

\* the keys of a combined document survived a rejected edit
C7_Witness ==
    /\ status = "invalid_json"
    /\ KeysAreNames

\* C8 as stated: every file Save JSON to Volume wrote is the serialization of
\* a JSON object.
C8_Original ==
    \A p \in DOMAIN volume :
        loads(volume[p]).ok /\ loads(volume[p]).v.t = "obj"

C10_Original ==
    status = "combined" =>
        \A i \in 1..Len(final_json.v) :
            CombinedValue(flow, Values(final_json)[i]) = Values(final_json)[i]

\* C10, amended: combining the stored value again yields it again for every
\* entry that was a failed call, an answer that did not parse, or an answer
\* whose parsed value is not a string.
C10_Idempotent ==
    status = "combined" =>
        \A i \in 1..Len(final_json.v) :
            (~IsStr(Values(final_json)[i]) \/ ParseFails(flow, Values(prompt_results)[i]))
                => CombinedValue(flow, Values(final_json)[i]) = Values(final_json)[i]

\* the image flow combined an unparsable doubly fenced answer, prose and a
\* fenced object; each stored value combines to itself
C10_Witness ==
    /\ flow = "image"
    /\ status = "combined"
    /\ Values(prompt_results) = <<PyStr(DoubleFence), PyStr(Prose), PyStr(FencedObject)>>
    /\ Values(final_json)[1] = PyStr(DoubleFence)
    /\ Values(final_json)[2] = PyStr(Prose)
    /\ Values(final_json)[3].t = "obj"
    /\ \A i \in 1..3 : CombinedValue(flow, Values(final_json)[i]) = Values(final_json)[i]

----------------------------------------------------------------------------
(* The two scripts compared *)

\* the other of the two scripts
OtherFlow(f) == IF f = "image" THEN "pdf" ELSE "image"

\* the names of the entries of a batch that script f stores as their text
FellBack(f, results) ==
    {results.v[i][1] : i \in {j \in 1..Len(results.v) : ParseFails(f, results.v[j][2])}}

\* C11 as stated: on every batch, Combine All JSONs of this script yields the
\* mapping the other script's Combine yields on that batch, it warns about
\* exactly the entries it stored as their text, and a fence-wrapped object
\* answer is stored as an object.
C11_Original ==
    status = "combined" =>
        /\ final_json = PyDict(CombineFrom(OtherFlow(flow), prompt_results.v, 1, <<>>))
        /\ warnings = FellBack(flow, prompt_results)
        /\ \A i \in 1..Len(prompt_results.v) :
              Values(prompt_results)[i] = PyStr(FencedObject)
                  => Values(final_json)[i].t = "obj"

----------------------------------------------------------------------------
(* When the buttons of Review & Edit and Save Results can be clicked *)

\* C12 as stated: Validate & Update and Save JSON to Volume can be clicked in
\* exactly the states whose final_json is truthy.
C12_Original ==
    /\ (ENABLED ValidateAndUpdate(EditTexts)) <=> Truthy(final_json)
    /\ (ENABLED SaveJSONToVolume) <=> Truthy(final_json)

\* the part of C12 that holds of the code: neither button can be clicked while
\* final_json is falsy, and the volume is written only in a session whose
\* Invoke All Prompts has run on a stored document
C12_OnlyWhenNonEmpty ==
    /\ (ENABLED ValidateAndUpdate(EditTexts)) => Truthy(final_json)
    /\ (ENABLED SaveJSONToVolume) => Truthy(final_json)
    /\ volume # <<>> => Truthy(prompt_results) /\ Truthy(uploaded_bytes)

----------------------------------------------------------------------------
(* What writes final_json *)

\* the document Combine All JSONs yields when every model call answered
\* about a file
CombinedAbout(file) ==
    LET outcome == [i \in 1..Len(prompts(flow)) |-> Reply(AnswerAbout(PyBytes(file.bytes)))]
        results == InvokeFrom(prompts(flow), outcome, 1, <<>>)
    IN  <<PyDict(results), PyDict(CombineFrom(flow, results, 1, <<>>))>>

\* C13: a step that changes the uploader (a new file, or its removal) leaves
\* prompt_results and final_json as they were; Invoke All Prompts leaves
\* final_json as it was; final_json changes only in Combine All JSONs or in a
\* Validate & Update that parsed, and from a falsy final_json only in Combine
\* All JSONs.
C13_OnlyCombineAndCommit ==
    [][/\ uploaded_file' # uploaded_file
            => prompt_results' = prompt_results /\ final_json' = final_json
       /\ status' = "extractions_complete" => final_json' = final_json
       /\ final_json' # final_json => status' \in {"combined", "valid_updated"}
       /\ final_json' # final_json /\ ~Truthy(final_json) => status' = "combined"]_vars

\* the document combined from the answers about one file is saved under the
\* default filename of another file, which is the uploaded one and whose own
\* batch prompt_results holds
C13_Witness ==
    /\ status = "saved"
    /\ uploaded_file # None
    /\ uploaded_name = PyStr(uploaded_file.name)
    /\ prompt_results = CombinedAbout(uploaded_file)[1]
    /\ \E file \in Documents(flow) :
          /\ file.name # uploaded_file.name
          /\ final_json = CombinedAbout(file)[2]
          /\ final_json # CombinedAbout(uploaded_file)[2]
    /\ VolumeRoot \o DefaultName \in DOMAIN volume
    /\ loads(volume[VolumeRoot \o DefaultName]).v = final_json

=============================================================================
